---- MODULE Spec2Model ----
(***************************************************************************)
(* ClientsetSecretStore (upup/pkg/fi/secrets/clientset_secretstore.go):    *)
(* a SecretStore backed by Keyset objects in an API server.  The store is  *)
(* shared by several callers; every call of the clientset (Get, List,      *)
(* Create, item deletion) is one atomic step of the store, and the code    *)
(* between two such calls is local to the caller.                          *)
(***************************************************************************)
EXTENDS Integers, Sequences, FiniteSets, TLC

VARIABLES
    keysets,    \* the Keyset objects the API server holds
    keysets0,   \* the Keyset objects it held before the first call
    pc,         \* per caller: where it is in GetOrCreateSecret, or "idle"
    cur,        \* per caller: the invocation of GetOrCreateSecret under way
    done        \* per caller: its finished invocations, in order

vars == <<keysets, keysets0, pc, cur, done>>

-----------------------------------------------------------------------------
(* Program constants *)

NamePrefix == "token-"

SecretTypeSecret == "Secret"

SecretTypeKeypair == "Keypair"

\* the loop bound of GetOrCreateSecret: for i := 0; i < 2; i++
MaxAttempts == 2

-----------------------------------------------------------------------------
(* Bounds of the model *)

\* concurrent callers of the store
NumCallers == 2

\* invocations the callers make in all
MaxCalls == 2

Callers == 1..NumCallers

\* the ids pki.BuildPKISerial(time.Now().UnixNano()) may give an item
Ids == {1, 2}

\* secret payloads (fi.Secret.Data); as many as there are callers, so that
\* concurrent callers can hold pairwise distinct candidates
Payloads == 1..NumCallers

\* logical secret names; the second begins with the prefix itself
Names == {"a", "token-a"}

\* the names of the Keyset objects the callers can address
KeysetNames == <<"a", "token-a", "token-token-a">>

-----------------------------------------------------------------------------
(* Values *)

\* a nil *fi.Secret
Nil == 0

\* a nil error
NoErr == "nil"

\* errors.IsNotFound(err)
ErrNotFound == "NotFound"

\* errors.IsAlreadyExists(err)
ErrAlreadyExists == "AlreadyExists"

\* any other failure of the API server
ErrStore == "StoreError"

\* fmt.Errorf("error reading keyset %q: %v", name, err)
ErrReadingKeyset == "error reading keyset"

\* fmt.Errorf("error listing keysets: %v", err)
ErrListingKeysets == "error listing keysets"

\* fmt.Errorf("Secret not found: %q", name)
ErrSecretNotFound == "Secret not found"

\* DeleteKeysetItem: the keyset has another type, or holds no such item
ErrDeleteItem == "error deleting keyset item"

NoKeyset == [Name |-> "", Type |-> "", Keys |-> <<>>]

NoItem == [Id |-> 0, PrivateMaterial |-> Nil]

-----------------------------------------------------------------------------
(* strings *)

HasPrefix(s, prefix) ==
    /\ Len(s) >= Len(prefix)
    /\ SubSeq(s, 1, Len(prefix)) = prefix

\* strings.TrimPrefix: s without the leading prefix, once, or s itself
RECURSIVE TrimPrefixRepeated(_, _)
\* a trim that removes every leading occurrence of the prefix, not one
TrimPrefixRepeated(s, prefix) ==
    IF HasPrefix(s, prefix) /\ Len(prefix) > 0
        THEN TrimPrefixRepeated(SubSeq(s, Len(prefix) + 1, Len(s)), prefix)
    ELSE s

TrimPrefix(s, prefix) ==
    IF HasPrefix(s, prefix) THEN SubSeq(s, Len(prefix) + 1, Len(s)) ELSE s

-----------------------------------------------------------------------------
(* The API server's Keysets(namespace): a sequence of Keyset objects with   *)
(* pairwise distinct names, in the order List returns them.  fault is the   *)
(* server failing the call with an error that is neither NotFound nor       *)
(* AlreadyExists; a failed call leaves the objects as they were.            *)

Exists(items, name) == \E i \in 1..Len(items) : items[i].Name = name

IndexOf(items, name) == CHOOSE i \in 1..Len(items) : items[i].Name = name

KeysetsGet(items, name, fault) ==
    IF fault THEN [keyset |-> NoKeyset, err |-> ErrStore]
    ELSE IF ~Exists(items, name) THEN [keyset |-> NoKeyset, err |-> ErrNotFound]
    ELSE [keyset |-> items[IndexOf(items, name)], err |-> NoErr]

KeysetsList(items, fault) ==
    IF fault THEN [items |-> <<>>, err |-> ErrStore]
    ELSE [items |-> items, err |-> NoErr]

\* fails rather than overwrites on a name collision
KeysetsCreate(items, keyset, fault) ==
    IF fault THEN [items |-> items, err |-> ErrStore]
    ELSE IF Exists(items, keyset.Name) THEN [items |-> items, err |-> ErrAlreadyExists]
    ELSE [items |-> Append(items, keyset), err |-> NoErr]

RemoveItem(keys, id) == SelectSeq(keys, LAMBDA k : k.Id # id)

\* fi.DeleteKeysetItem(client, name, keysetType, id): removes the item id from
\* the keyset of that name and type; fails if there is no such item
DeleteKeysetItem(items, name, keysetType, id, fault) ==
    IF fault THEN [items |-> items, err |-> ErrStore]
    ELSE IF ~Exists(items, name) THEN [items |-> items, err |-> ErrDeleteItem]
    ELSE LET i == IndexOf(items, name)
             keyset == items[i]
         IN  IF keyset.Type # keysetType
                 THEN [items |-> items, err |-> ErrDeleteItem]
             ELSE IF ~\E j \in 1..Len(keyset.Keys) : keyset.Keys[j].Id = id
                 THEN [items |-> items, err |-> ErrDeleteItem]
             ELSE [items |-> [items EXCEPT ![i].Keys = RemoveItem(keyset.Keys, id)],
                   err |-> NoErr]

\* fi.FindPrimary: the item with the greatest id (the most recent one), or
\* none when the keyset holds no item
FindPrimary(keyset) ==
    IF Len(keyset.Keys) = 0 THEN NoItem
    ELSE keyset.Keys[CHOOSE j \in 1..Len(keyset.Keys) :
                        \A k \in 1..Len(keyset.Keys) :
                            keyset.Keys[k].Id <= keyset.Keys[j].Id]

-----------------------------------------------------------------------------
(* The functions of ClientsetSecretStore, over the store's content *)

\* parseSecret as it would be if a keyset without a primary were an error
parseSecretStrict(keyset) ==
    LET primary == FindPrimary(keyset)
    IN  IF primary = NoItem THEN [s |-> Nil, err |-> ErrSecretNotFound]
        ELSE [s |-> primary.PrivateMaterial, err |-> NoErr]

\* parseSecret attempts to parse the primary secret, otherwise returns nil
parseSecret(keyset) ==
    LET primary == FindPrimary(keyset)
    IN  IF primary = NoItem THEN [s |-> Nil, err |-> NoErr]
        ELSE [s |-> primary.PrivateMaterial, err |-> NoErr]

\* loadSecret as it would be if it forgot the prefix: name = NamePrefix + name
loadSecretNoPrefix(items, name, fault) ==
    LET r == KeysetsGet(items, name, fault)
    IN  IF r.err # NoErr
            THEN IF r.err = ErrNotFound THEN [s |-> Nil, err |-> NoErr]
                 ELSE [s |-> Nil, err |-> ErrReadingKeyset]
        ELSE parseSecret(r.keyset)

\* loadSecret returns the named secret, if it exists, otherwise returns nil
loadSecret(items, name, fault) ==
    LET r == KeysetsGet(items, NamePrefix \o name, fault)
    IN  IF r.err # NoErr
            THEN IF r.err = ErrNotFound THEN [s |-> Nil, err |-> NoErr]
                 ELSE [s |-> Nil, err |-> ErrReadingKeyset]
        ELSE parseSecret(r.keyset)

FindSecret(items, name, fault) ==
    LET r == loadSecret(items, name, fault)
    IN  IF r.err # NoErr THEN [s |-> Nil, err |-> r.err]
        ELSE [s |-> r.s, err |-> NoErr]

Secret(items, name, fault) ==
    LET r == FindSecret(items, name, fault)
    IN  IF r.err # NoErr THEN [s |-> Nil, err |-> r.err]
        ELSE IF r.s = Nil THEN [s |-> Nil, err |-> ErrSecretNotFound]
        ELSE [s |-> r.s, err |-> NoErr]

\* ListSecrets as it would be without the switch on keyset.Spec.Type
ListSecretsNoFilter(items, fault) ==
    LET list == KeysetsList(items, fault)
    IN  IF list.err # NoErr THEN [names |-> <<>>, err |-> ErrListingKeysets]
        ELSE [names |-> [i \in 1..Len(list.items) |->
                            TrimPrefix(list.items[i].Name, NamePrefix)],
              err |-> NoErr]

ListSecrets(items, fault) ==
    LET list == KeysetsList(items, fault)
        secrets == SelectSeq(list.items, LAMBDA k : k.Type = SecretTypeSecret)
    IN  IF list.err # NoErr THEN [names |-> <<>>, err |-> ErrListingKeysets]
        ELSE [names |-> [i \in 1..Len(secrets) |->
                            TrimPrefix(secrets[i].Name, NamePrefix)],
              err |-> NoErr]

\* DeleteSecret as it would be if it named the object createSecret writes:
\* the prefixed name and the type Secret
DeleteSecretFixed(items, item, fault) ==
    DeleteKeysetItem(items, NamePrefix \o item.Name, SecretTypeSecret, item.Id, fault)

\* the name and the type DeleteSecret hands to fi.DeleteKeysetItem
DeleteSecret(items, item, fault) ==
    DeleteKeysetItem(items, item.Name, SecretTypeKeypair, item.Id, fault)

\* createSecret as it would be without "keyset.Spec.Type = kops.SecretTypeSecret",
\* the object taking the type DeleteSecret names
createSecretKeypairType(items, s, name, id, fault) ==
    KeysetsCreate(items,
                  [Name |-> NamePrefix \o name,
                   Type |-> SecretTypeKeypair,
                   Keys |-> <<[Id |-> id, PrivateMaterial |-> s]>>],
                  fault)

\* createSecret as it would be if it wrote with Update semantics: an existing
\* object of the name is replaced
createSecretOverwrite(items, s, name, id, fault) ==
    LET keyset == [Name |-> NamePrefix \o name,
                   Type |-> SecretTypeSecret,
                   Keys |-> <<[Id |-> id, PrivateMaterial |-> s]>>]
    IN  IF fault THEN [items |-> items, err |-> ErrStore]
        ELSE IF Exists(items, keyset.Name)
            THEN [items |-> [items EXCEPT ![IndexOf(items, keyset.Name)] = keyset],
                  err |-> NoErr]
        ELSE [items |-> Append(items, keyset), err |-> NoErr]

\* createSecret writes the secret, but only if it does not exist
createSecret(items, s, name, id, fault) ==
    KeysetsCreate(items,
                  [Name |-> NamePrefix \o name,
                   Type |-> SecretTypeSecret,
                   Keys |-> <<[Id |-> id, PrivateMaterial |-> s]>>],
                  fault)

\* the test as it would be if a lost race were an error like any other
RetryCreateNever(err, i) == FALSE

\* the test as it would be without "&& i == 0"
RetryCreateAlways(err, i) == err = ErrAlreadyExists

\* the test as it would be without errors.IsAlreadyExists(err)
RetryCreateAnyError(err, i) == i = 0

\* if errors.IsAlreadyExists(err) && i == 0 { ... continue }
RetryCreate(err, i) == err = ErrAlreadyExists /\ i = 0

-----------------------------------------------------------------------------
(* The state of a caller *)

Idle == [op |-> "", name |-> "", secret |-> Nil, i |-> 0, calls |-> <<>>]

\* one call of the API server: whether the server failed it, and the error and
\* the secret the store's function made of its answer
Call(call, fault, err, s) == [call |-> call, fault |-> fault, err |-> err, s |-> s]

\* one finished invocation: its arguments, what it returned and the calls it
\* made of the API server
Returned(op, name, secret, id, s, created, err, names, calls) ==
    [op |-> op, name |-> name, secret |-> secret, id |-> id, s |-> s,
     created |-> created, err |-> err, names |-> names, calls |-> calls]

\* the contents the API server may hold before the first call: keypairs of
\* other components under the bare names, secrets (with zero, one or two
\* items) or a keypair under the prefixed names
Item1 == [Id |-> 1, PrivateMaterial |-> 1]

Item2 == [Id |-> 2, PrivateMaterial |-> 2]

Keyset(name, type, keys) == [Name |-> name, Type |-> type, Keys |-> keys]

InitObjects(n) ==
    IF n = 1 THEN {<<>>, <<Keyset(KeysetNames[1], SecretTypeKeypair, <<Item1, Item2>>)>>}
    ELSE IF n = 2
        THEN {<<>>,
              <<Keyset(KeysetNames[2], SecretTypeSecret, <<>>)>>,
              <<Keyset(KeysetNames[2], SecretTypeSecret, <<Item1>>)>>,
              <<Keyset(KeysetNames[2], SecretTypeSecret, <<Item1, Item2>>)>>,
              <<Keyset(KeysetNames[2], SecretTypeKeypair, <<Item1>>)>>}
    ELSE {<<>>, <<Keyset(KeysetNames[3], SecretTypeSecret, <<Item2>>)>>}

InitKeysets == {a \o b \o c : a \in InitObjects(1), b \in InitObjects(2), c \in InitObjects(3)}

Init ==
    /\ keysets \in InitKeysets
    /\ keysets0 = keysets
    /\ pc = [c \in Callers |-> "idle"]
    /\ cur = [c \in Callers |-> Idle]
    /\ done = [c \in Callers |-> <<>>]

\* the invocations made so far, finished or not
RECURSIVE Invocations(_)
Invocations(cs) ==
    IF cs = {} THEN 0
    ELSE LET c == CHOOSE x \in cs : TRUE
         IN  Len(done[c]) + (IF pc[c] = "idle" THEN 0 ELSE 1) + Invocations(cs \ {c})

MayCall(c) == pc[c] = "idle" /\ Invocations(Callers) < MaxCalls

Return(c, r) ==
    /\ done' = [done EXCEPT ![c] = Append(@, r)]
    /\ pc' = [pc EXCEPT ![c] = "idle"]
    /\ cur' = [cur EXCEPT ![c] = Idle]
    /\ keysets0' = keysets0

-----------------------------------------------------------------------------
(* The operations *)

DoFindSecret(c, name, fault) ==
    /\ MayCall(c)
    /\ LET r == FindSecret(keysets, name, fault)
       IN  Return(c, Returned("FindSecret", name, Nil, 0, r.s, FALSE, r.err, <<>>,
                              <<Call("Get", fault, r.err, r.s)>>))
    /\ UNCHANGED keysets

DoSecret(c, name, fault) ==
    /\ MayCall(c)
    /\ LET r == Secret(keysets, name, fault)
           g == loadSecret(keysets, name, fault)
       IN  Return(c, Returned("Secret", name, Nil, 0, r.s, FALSE, r.err, <<>>,
                              <<Call("Get", fault, g.err, g.s)>>))
    /\ UNCHANGED keysets

DoListSecrets(c, fault) ==
    /\ MayCall(c)
    /\ LET r == ListSecrets(keysets, fault)
       IN  Return(c, Returned("ListSecrets", "", Nil, 0, Nil, FALSE, r.err, r.names,
                              <<Call("List", fault, r.err, Nil)>>))
    /\ UNCHANGED keysets

\* DeleteSecret is one call of the server.  As history, its record keeps in
\* names the names whose GetOrCreateSecret stood, when the call landed, between
\* its successful Create and the read that follows it
DoDeleteSecret(c, item, fault) ==
    /\ MayCall(c)
    /\ LET r == DeleteSecret(keysets, item, fault)
           reading == SelectSeq(KeysetNames,
                                LAMBDA x : \E d \in Callers :
                                    pc[d] = "loadSecret" /\ cur[d].name = x)
       IN  /\ keysets' = r.items
           /\ Return(c, Returned("DeleteSecret", item.Name, Nil, item.Id, Nil, FALSE,
                                 r.err, reading, <<Call("DeleteItem", fault, r.err, Nil)>>))

\* GetOrCreateSecret as it would be if it tried to create before it looked
GetOrCreateSecretCreateFirst(c, name, secret) ==
    /\ MayCall(c)
    /\ cur' = [cur EXCEPT ![c] = [op |-> "GetOrCreateSecret", name |-> name,
                                  secret |-> secret, i |-> 0, calls |-> <<>>]]
    /\ pc' = [pc EXCEPT ![c] = "createSecret"]
    /\ UNCHANGED <<keysets, keysets0, done>>

\* GetOrCreateSecret is entered: i := 0
GetOrCreateSecret(c, name, secret) ==
    /\ MayCall(c)
    /\ cur' = [cur EXCEPT ![c] = [op |-> "GetOrCreateSecret", name |-> name,
                                  secret |-> secret, i |-> 0, calls |-> <<>>]]
    /\ pc' = [pc EXCEPT ![c] = IF 0 < MaxAttempts THEN "FindSecret" ELSE "loadSecret"]
    /\ UNCHANGED <<keysets, keysets0, done>>

GocsReturn(c, s, created, err, calls) ==
    Return(c, Returned("GetOrCreateSecret", cur[c].name, cur[c].secret, 0,
                       s, created, err, <<>>, calls))

\* s, err := c.FindSecret(name) and the two tests that follow it
GetOrCreateSecretFind(c, fault) ==
    /\ pc[c] = "FindSecret"
    /\ LET r == FindSecret(keysets, cur[c].name, fault)
           calls == Append(cur[c].calls, Call("Get", fault, r.err, r.s))
       IN  IF r.err # NoErr THEN GocsReturn(c, Nil, FALSE, r.err, calls)
           ELSE IF r.s # Nil THEN GocsReturn(c, r.s, FALSE, NoErr, calls)
           ELSE /\ cur' = [cur EXCEPT ![c].calls = calls]
                /\ pc' = [pc EXCEPT ![c] = "createSecret"]
                /\ UNCHANGED <<done, keysets0>>
    /\ UNCHANGED keysets

\* the Create step as it would be if the value just written were trusted: a
\* successful Create returns the candidate, without the read after the loop
GetOrCreateSecretCreateEcho(c, id, fault) ==
    /\ pc[c] = "createSecret"
    /\ LET r == createSecret(keysets, cur[c].secret, cur[c].name, id, fault)
           calls == Append(cur[c].calls, Call("Create", fault, r.err, cur[c].secret))
       IN  /\ keysets' = r.items
           /\ IF r.err # NoErr
                  THEN IF RetryCreate(r.err, cur[c].i)
                           THEN /\ cur' = [cur EXCEPT ![c].calls = calls,
                                                      ![c].i = @ + 1]
                                /\ pc' = [pc EXCEPT ![c] =
                                            IF cur[c].i + 1 < MaxAttempts
                                                THEN "FindSecret" ELSE "loadSecret"]
                                /\ UNCHANGED <<done, keysets0>>
                       ELSE GocsReturn(c, Nil, FALSE, r.err, calls)
              ELSE GocsReturn(c, cur[c].secret, TRUE, NoErr, calls)

\* the Create step as it would be with "i <= 1" where the code has "i == 0",
\* and a loop that runs while i <= 2: a second conflict is retried as well
GetOrCreateSecretCreateRetryTwice(c, id, fault) ==
    /\ pc[c] = "createSecret"
    /\ LET r == createSecret(keysets, cur[c].secret, cur[c].name, id, fault)
           calls == Append(cur[c].calls, Call("Create", fault, r.err, cur[c].secret))
       IN  /\ keysets' = r.items
           /\ IF r.err # NoErr
                  THEN IF r.err = ErrAlreadyExists /\ cur[c].i <= 1
                           THEN /\ cur' = [cur EXCEPT ![c].calls = calls,
                                                      ![c].i = @ + 1]
                                /\ pc' = [pc EXCEPT ![c] = "FindSecret"]
                                /\ UNCHANGED <<done, keysets0>>
                       ELSE GocsReturn(c, Nil, FALSE, r.err, calls)
              ELSE /\ cur' = [cur EXCEPT ![c].calls = calls]
                   /\ pc' = [pc EXCEPT ![c] = "loadSecret"]
                   /\ UNCHANGED <<done, keysets0>>

\* _, err = c.createSecret(secret, name) and what the loop does with err
GetOrCreateSecretCreate(c, id, fault) ==
    /\ pc[c] = "createSecret"
    /\ LET r == createSecret(keysets, cur[c].secret, cur[c].name, id, fault)
           calls == Append(cur[c].calls, Call("Create", fault, r.err, cur[c].secret))
       IN  /\ keysets' = r.items
           /\ IF r.err # NoErr
                  THEN IF RetryCreate(r.err, cur[c].i)
                           THEN \* continue: i++, then the test i < 2
                                /\ cur' = [cur EXCEPT ![c].calls = calls,
                                                      ![c].i = @ + 1]
                                /\ pc' = [pc EXCEPT ![c] =
                                            IF cur[c].i + 1 < MaxAttempts
                                                THEN "FindSecret" ELSE "loadSecret"]
                                /\ UNCHANGED <<done, keysets0>>
                       ELSE GocsReturn(c, Nil, FALSE, r.err, calls)
              ELSE \* break
                   /\ cur' = [cur EXCEPT ![c].calls = calls]
                   /\ pc' = [pc EXCEPT ![c] = "loadSecret"]
                   /\ UNCHANGED <<done, keysets0>>

\* the last read as it would be if its error were dropped
GetOrCreateSecretLoadIgnoreErr(c, fault) ==
    /\ pc[c] = "loadSecret"
    /\ LET r == loadSecret(keysets, cur[c].name, fault)
           calls == Append(cur[c].calls, Call("Get", fault, r.err, r.s))
       IN  GocsReturn(c, r.s, TRUE, NoErr, calls)
    /\ UNCHANGED keysets

\* Make double-sure it round-trips: glog.Fatalf ends the caller's process
GetOrCreateSecretLoad(c, fault) ==
    /\ pc[c] = "loadSecret"
    /\ LET r == loadSecret(keysets, cur[c].name, fault)
           calls == Append(cur[c].calls, Call("Get", fault, r.err, r.s))
       IN  IF r.err # NoErr
               THEN /\ cur' = [cur EXCEPT ![c].calls = calls]
                    /\ pc' = [pc EXCEPT ![c] = "fatal"]
                    /\ UNCHANGED <<done, keysets0>>
           ELSE GocsReturn(c, r.s, TRUE, NoErr, calls)
    /\ UNCHANGED keysets

\* the items a caller may ask DeleteSecret to delete
Items == [Name : Names, Id : Ids]

\* one step of an invocation of GetOrCreateSecret that is under way
GetOrCreateSecretStep(c, fault) ==
    \/ GetOrCreateSecretFind(c, fault)
    \/ \E id \in Ids : GetOrCreateSecretCreate(c, id, fault)
    \/ GetOrCreateSecretLoad(c, fault)

Next ==
    \E c \in Callers :
        \/ \E name \in Names, fault \in BOOLEAN : DoFindSecret(c, name, fault)
        \/ \E name \in Names, fault \in BOOLEAN : DoSecret(c, name, fault)
        \/ \E fault \in BOOLEAN : DoListSecrets(c, fault)
        \/ \E item \in Items, fault \in BOOLEAN : DoDeleteSecret(c, item, fault)
        \/ \E name \in Names, secret \in Payloads : GetOrCreateSecret(c, name, secret)
        \/ \E fault \in BOOLEAN : GetOrCreateSecretStep(c, fault)

Spec == Init /\ [][Next]_vars

\* a call of the API server returns, whatever its answer, and the caller goes on
SpecFair ==
    Spec /\ \A c \in Callers : WF_vars(\E fault \in BOOLEAN : GetOrCreateSecretStep(c, fault))

-----------------------------------------------------------------------------
(* Callers racing to create one secret: every caller invokes               *)
(* GetOrCreateSecret once, all on the same name, with pairwise distinct    *)
(* candidates; nobody deletes and the API server does not fail.            *)

\* the invocations of caller c, finished or under way
InvocationsOf(c) ==
    {done[c][k] : k \in 1..Len(done[c])} \cup (IF pc[c] = "idle" THEN {} ELSE {cur[c]})

RaceArgs(c, name, secret) ==
    /\ done[c] = <<>>
    /\ \A d \in Callers \ {c} : \A v \in InvocationsOf(d) :
           v.name = name /\ v.secret # secret

NextRace ==
    \E c \in Callers :
        \/ \E name \in Names, secret \in Payloads :
               RaceArgs(c, name, secret) /\ GetOrCreateSecret(c, name, secret)
        \/ GetOrCreateSecretStep(c, FALSE)

SpecRace == Init /\ [][NextRace]_vars

\* a call of the API server returns, and the caller goes on
SpecRaceFair ==
    SpecRace /\ \A c \in Callers : WF_vars(GetOrCreateSecretStep(c, FALSE))

-----------------------------------------------------------------------------
(* One caller calling GetOrCreateSecret again and again, alone, on an API  *)
(* server that does not fail.                                              *)

NextSeq ==
    \/ \E name \in Names, secret \in Payloads : GetOrCreateSecret(1, name, secret)
    \/ GetOrCreateSecretStep(1, FALSE)

SpecSeq == Init /\ [][NextSeq]_vars

-----------------------------------------------------------------------------
(* What the properties below speak of *)

\* the store holds an object for the secret name
HasRecord(items, name) == Exists(items, NamePrefix \o name)

\* the payload of the primary item of the secret's object; Nil when there is
\* no object or the object holds no item
PrimaryOf(items, name) ==
    IF ~HasRecord(items, name) THEN Nil
    ELSE LET keys == items[IndexOf(items, NamePrefix \o name)].Keys
         IN  IF keys = <<>> THEN Nil
             ELSE LET top == CHOOSE j \in 1..Len(keys) :
                                 \A k \in 1..Len(keys) : keys[k].Id <= keys[j].Id
                  IN  keys[top].PrivateMaterial

\* the finished invocations of GetOrCreateSecret, each with its caller
FinishedGocs ==
    {<<c, k>> \in Callers \X (1..MaxCalls) :
        k <= Len(done[c]) /\ done[c][k].op = "GetOrCreateSecret"}

Quiet == \A c \in Callers : pc[c] = "idle"

Last(seq) == seq[Len(seq)]

-----------------------------------------------------------------------------
(* C1: race resolution.  Callers racing on one name with pairwise distinct  *)
(* candidates all return the same payload; when the name had no object      *)
(* before the race at most one of them reports created, and exactly one    *)
(* once all that entered have returned; when the name had an object with a *)
(* primary item before the race, every caller returns that item's payload  *)
(* with created = FALSE.                                                    *)
C1_RaceResolution ==
    \A name \in Names :
        LET R == {p \in FinishedGocs : done[p[1]][p[2]].name = name}
            Created == {p \in R : done[p[1]][p[2]].created}
        IN  /\ \A p, q \in R : done[p[1]][p[2]].s = done[q[1]][q[2]].s
            /\ ~HasRecord(keysets0, name) =>
                   /\ Cardinality(Created) <= 1
                   /\ (Quiet /\ R # {}) => Cardinality(Created) = 1
            /\ PrimaryOf(keysets0, name) # Nil =>
                   \A p \in R : /\ ~done[p[1]][p[2]].created
                                /\ done[p[1]][p[2]].err = NoErr
                                /\ done[p[1]][p[2]].s = PrimaryOf(keysets0, name)

\* two callers have raced on an absent name: one created the secret, the
\* other lost the Create and returned the winner's payload
C1_Witness ==
    \E c, d \in Callers :
        /\ c # d /\ Len(done[c]) = 1 /\ Len(done[d]) = 1
        /\ ~HasRecord(keysets0, done[c][1].name)
        /\ done[c][1].created /\ ~done[d][1].created
        /\ done[d][1].secret # done[c][1].secret
        /\ done[d][1].s = done[c][1].secret
        /\ \E k \in 1..Len(done[d][1].calls) :
               /\ done[d][1].calls[k].call = "Create"
               /\ done[d][1].calls[k].err = ErrAlreadyExists

-----------------------------------------------------------------------------
(* C2: a benign creation race is success.  In a race on a name that had no  *)
(* object before it, with an API server that fails no call and nobody      *)
(* deleting, every invocation that is entered eventually returns, with no  *)
(* error and with a secret.                                                 *)
C2_BenignRaceSucceeds ==
    \A c \in Callers :
        (pc[c] # "idle" /\ ~HasRecord(keysets0, cur[c].name))
            ~> (/\ Len(done[c]) = 1
                /\ done[c][1].err = NoErr
                /\ done[c][1].s # Nil)

\* a caller lost the Create of an absent name (AlreadyExists), went round the
\* loop once more and returned the secret without error
C2_Witness ==
    \E c \in Callers :
        /\ Len(done[c]) = 1
        /\ ~HasRecord(keysets0, done[c][1].name)
        /\ Len(done[c][1].calls) = 3
        /\ done[c][1].calls[2].call = "Create"
        /\ done[c][1].calls[2].err = ErrAlreadyExists
        /\ done[c][1].err = NoErr
        /\ done[c][1].s # Nil

-----------------------------------------------------------------------------
(* C3: idempotent creation.  When a caller, alone, calls                    *)
(* GetOrCreateSecret(name, A) and then GetOrCreateSecret(name, B), A # B,   *)
(* on a name that had no object, both calls return A, the first with        *)
(* created = TRUE and the second with created = FALSE, and the object       *)
(* still holds A, in one item, after the second call.                       *)
C3_IdempotentCreation ==
    (/\ Len(done[1]) >= 2
     /\ done[1][1].name = done[1][2].name
     /\ done[1][1].secret # done[1][2].secret
     /\ ~HasRecord(keysets0, done[1][1].name))
    => LET A == done[1][1].secret
           name == done[1][1].name
       IN  /\ done[1][1].s = A /\ done[1][1].created /\ done[1][1].err = NoErr
           /\ done[1][2].s = A /\ ~done[1][2].created /\ done[1][2].err = NoErr
           /\ HasRecord(keysets, name)
           /\ LET keys == keysets[IndexOf(keysets, NamePrefix \o name)].Keys
               IN  Len(keys) = 1 /\ keys[1].PrivateMaterial = A

\* the two calls have been made, with different candidates, on a name that
\* had no object
C3_Witness ==
    /\ Len(done[1]) = 2
    /\ done[1][1].name = done[1][2].name
    /\ done[1][1].secret # done[1][2].secret
    /\ ~HasRecord(keysets0, done[1][1].name)
    /\ done[1][2].calls # <<>>

-----------------------------------------------------------------------------
\* the step is the return of a DeleteSecret
IsDeleteStep ==
    \E c \in Callers :
        /\ Len(done'[c]) = Len(done[c]) + 1
        /\ Last(done'[c]).op = "DeleteSecret"

(* C4: an object is written once.  No step of FindSecret, Secret,           *)
(* ListSecrets or GetOrCreateSecret, of any caller with any candidate,      *)
(* changes or removes an object the store holds, so every read of a name    *)
(* gives the same answer until a DeleteSecret.                              *)
C4_WrittenOnce ==
    [][~IsDeleteStep =>
          /\ Len(keysets') >= Len(keysets)
          /\ \A n \in 1..Len(keysets) : keysets'[n] = keysets[n]
          /\ \A name \in Names :
                 HasRecord(keysets, name) =>
                     FindSecret(keysets', name, FALSE) = FindSecret(keysets, name, FALSE)]_vars

\* a GetOrCreateSecret with a candidate of its own has met an existing object:
\* its Create was refused, and the object is still there
C4_Witness ==
    \E c \in Callers : \E n \in 1..Len(done[c]) :
        /\ done[c][n].op = "GetOrCreateSecret"
        /\ \E k \in 1..Len(done[c][n].calls) :
               /\ done[c][n].calls[k].call = "Create"
               /\ done[c][n].calls[k].err = ErrAlreadyExists
        /\ HasRecord(keysets, done[c][n].name)
        /\ PrimaryOf(keysets, done[c][n].name) # done[c][n].secret

-----------------------------------------------------------------------------
\* in a log of store calls: the first is a Get, and a Get that gave (nil, no
\* error) directly precedes every Create
GetBeforeCreate(calls) ==
    /\ calls # <<>> => calls[1].call = "Get"
    /\ \A k \in 1..Len(calls) :
           calls[k].call = "Create" =>
               /\ k > 1
               /\ calls[k - 1].call = "Get"
               /\ calls[k - 1].err = NoErr
               /\ calls[k - 1].s = Nil

(* C5: read before write, and no write on the fast path.  In every          *)
(* invocation of GetOrCreateSecret the first call of the store is a Get,    *)
(* and every Create follows directly a Get that gave no secret and no       *)
(* error; when the first Get gives a secret, the invocation returns it     *)
(* with created = FALSE and has made no other call.                         *)
C5_ReadBeforeWrite ==
    \A c \in Callers :
        /\ pc[c] # "idle" =>
               /\ GetBeforeCreate(cur[c].calls)
               /\ cur[c].calls = <<>> => pc[c] = "FindSecret"
               /\ cur[c].calls # <<>> => cur[c].calls[1].s = Nil
        /\ \A n \in 1..Len(done[c]) :
               done[c][n].op = "GetOrCreateSecret" =>
                   /\ GetBeforeCreate(done[c][n].calls)
                   /\ done[c][n].calls # <<>>
                   /\ done[c][n].calls[1].s # Nil =>
                          /\ Len(done[c][n].calls) = 1
                          /\ done[c][n].s = done[c][n].calls[1].s
                          /\ ~done[c][n].created
                          /\ done[c][n].err = NoErr

\* both cases: an invocation returned on the fast path, and another issued a
\* Create after its Get found nothing
C5_Witness ==
    \E c, d \in Callers :
        /\ \E n \in 1..Len(done[c]) :
               /\ done[c][n].op = "GetOrCreateSecret"
               /\ done[c][n].calls[1].s # Nil
        /\ \E n \in 1..Len(done[d]) :
               /\ done[d][n].op = "GetOrCreateSecret"
               /\ Len(done[d][n].calls) >= 2
               /\ done[d][n].calls[2].call = "Create"

-----------------------------------------------------------------------------
\* the places of the Creates in a log of store calls, of those the server
\* refused with AlreadyExists, and whether place k is the first Create
Creates(calls) == {k \in 1..Len(calls) : calls[k].call = "Create"}

Conflicts(calls) == {k \in Creates(calls) : calls[k].err = ErrAlreadyExists}

FirstCreate(calls, k) == \A j \in Creates(calls) : j >= k

(* C6: conflict is swallowed exactly once.  An AlreadyExists of the first   *)
(* Create of an invocation is not returned: the invocation goes on, and its *)
(* next call is a Get.  An AlreadyExists of the second Create ends the      *)
(* invocation: it is its last call, and the invocation returns it as the    *)
(* error, with created = FALSE and no secret.                               *)
C6_ConflictSwallowedOnce ==
    \A c \in Callers :
        /\ pc[c] # "idle" =>
               \A k \in Conflicts(cur[c].calls) :
                   /\ FirstCreate(cur[c].calls, k)
                   /\ k = Len(cur[c].calls) => pc[c] = "FindSecret"
                   /\ k < Len(cur[c].calls) => cur[c].calls[k + 1].call = "Get"
        /\ \A n \in 1..Len(done[c]) :
               done[c][n].op = "GetOrCreateSecret" =>
                   LET calls == done[c][n].calls
                   IN  /\ Cardinality(Creates(calls)) <= 2
                       /\ \A k \in Conflicts(calls) :
                              IF FirstCreate(calls, k)
                                  THEN /\ k < Len(calls)
                                       /\ calls[k + 1].call = "Get"
                              ELSE /\ k = Len(calls)
                                   /\ done[c][n].err = ErrAlreadyExists
                                   /\ ~done[c][n].created
                                   /\ done[c][n].s = Nil

\* an invocation whose two Creates were both refused has returned
C6_Witness ==
    \E c \in Callers : \E n \in 1..Len(done[c]) :
        /\ done[c][n].op = "GetOrCreateSecret"
        /\ Cardinality(Conflicts(done[c][n].calls)) = 2

-----------------------------------------------------------------------------
(* C7: errors other than conflict are never retried.  When the API server   *)
(* fails a Get of the loop, or a Create of either attempt, with an error    *)
(* that is neither NotFound nor AlreadyExists, that step ends the           *)
(* invocation: it returns the error, created = FALSE and no secret, and the *)
(* store is as it was before the call.                                      *)
C7_OtherErrorsNotRetried ==
    [][\A c \in Callers :
          (/\ pc[c] \in {"FindSecret", "createSecret"}
           /\ <<pc[c], cur[c], done[c]>>' # <<pc[c], cur[c], done[c]>>
           /\ LET calls == IF Len(done'[c]) > Len(done[c])
                               THEN Last(done'[c]).calls ELSE cur'[c].calls
               IN  Last(calls).fault)
          => /\ Len(done'[c]) = Len(done[c]) + 1
             /\ pc'[c] = "idle"
             /\ Last(done'[c]).err # NoErr
             /\ Last(done'[c]).err = Last(Last(done'[c]).calls).err
             /\ Last(done'[c]).err # ErrAlreadyExists
             /\ ~Last(done'[c]).created
             /\ Last(done'[c]).s = Nil
             /\ Last(done'[c]).calls = Append(cur[c].calls, Last(Last(done'[c]).calls))
             /\ keysets' = keysets]_vars

\* the server failed the Create of a first attempt and the second Get of
\* another invocation, and both invocations have returned
C7_Witness ==
    /\ \E c \in Callers : \E n \in 1..Len(done[c]) :
           /\ done[c][n].op = "GetOrCreateSecret"
           /\ Len(done[c][n].calls) = 2
           /\ done[c][n].calls[2].call = "Create"
           /\ done[c][n].calls[2].fault
    /\ \E c \in Callers : \E n \in 1..Len(done[c]) :
           /\ done[c][n].op = "GetOrCreateSecret"
           /\ Len(done[c][n].calls) = 3
           /\ done[c][n].calls[3].call = "Get"
           /\ done[c][n].calls[3].fault
           /\ done[c][n].err = ErrReadingKeyset

-----------------------------------------------------------------------------
\* the answer (nil, no error)
Absent(r) == r.s = Nil /\ r.err = NoErr

(* C8: absence versus error.  On every store the callers can reach, and for *)
(* every name: FindSecret gives (nil, no error) when the Get succeeds and   *)
(* the name has no object or its object has no primary item, and gives an   *)
(* error exactly when the server fails the Get; Secret gives its not-found  *)
(* error exactly when FindSecret gives (nil, no error), and otherwise what  *)
(* FindSecret gives.  The finished invocations returned accordingly.        *)
C8_AbsenceVersusError ==
    /\ \A name \in Names, fault \in BOOLEAN :
           LET f == FindSecret(keysets, name, fault)
               g == Secret(keysets, name, fault)
           IN  /\ (~fault /\ PrimaryOf(keysets, name) = Nil) => Absent(f)
               /\ (~fault /\ PrimaryOf(keysets, name) # Nil) =>
                      f = [s |-> PrimaryOf(keysets, name), err |-> NoErr]
               /\ f.err # NoErr <=> fault
               /\ Absent(f) <=> g.err = ErrSecretNotFound
               /\ g.err # NoErr => g.s = Nil
               /\ ~Absent(f) => g = f
    /\ \A c \in Callers : \A n \in 1..Len(done[c]) :
           /\ done[c][n].op = "FindSecret" =>
                  (done[c][n].err # NoErr <=> done[c][n].calls[1].fault)
           /\ done[c][n].op = "Secret" =>
                  /\ done[c][n].err = ErrSecretNotFound <=> Absent(done[c][n].calls[1])
                  /\ done[c][n].err \notin {NoErr, ErrSecretNotFound}
                         <=> done[c][n].calls[1].fault

\* the store holds an object without a primary item, for which FindSecret has
\* returned (nil, no error) and Secret its not-found error
C8_Witness ==
    \E name \in Names :
        /\ HasRecord(keysets, name)
        /\ PrimaryOf(keysets, name) = Nil
        /\ \E c, d \in Callers : \E n \in 1..Len(done[c]), j \in 1..Len(done[d]) :
               /\ done[c][n].op = "FindSecret" /\ done[c][n].name = name
               /\ Absent(done[c][n]) /\ ~done[c][n].calls[1].fault
               /\ done[d][j].op = "Secret" /\ done[d][j].name = name
               /\ done[d][j].err = ErrSecretNotFound

-----------------------------------------------------------------------------
\* in a log of store calls: the Get after a successful Create gave an error
ConfirmFailed(calls) ==
    \E k \in 2..Len(calls) :
        /\ calls[k - 1].call = "Create" /\ calls[k - 1].err = NoErr
        /\ calls[k].call = "Get" /\ calls[k].err # NoErr

(* C9: a failed confirmation read is never reported as success.  An         *)
(* invocation whose Get after its successful Create failed has not          *)
(* returned, and does not: its caller has ended in the fatal abort.         *)
C9_FailedConfirmationNotSuccess ==
    \A c \in Callers :
        /\ \A n \in 1..Len(done[c]) : ~ConfirmFailed(done[c][n].calls)
        /\ (pc[c] # "idle" /\ ConfirmFailed(cur[c].calls)) => pc[c] = "fatal"
        /\ pc[c] = "fatal" => ConfirmFailed(cur[c].calls)

\* the server failed the read that follows a successful Create
C9_Witness ==
    \E c \in Callers :
        /\ pc[c] = "fatal"
        /\ Last(cur[c].calls).fault
        /\ HasRecord(keysets, cur[c].name)

-----------------------------------------------------------------------------
\* a createSecret of some invocation wrote the object of the name; the items
\* of that object
CreatedHere(name) ==
    \E c \in Callers : \E v \in InvocationsOf(c) :
        /\ v.op = "GetOrCreateSecret" /\ v.name = name
        /\ \E k \in 1..Len(v.calls) :
               v.calls[k].call = "Create" /\ v.calls[k].err = NoErr

KeysOf(items, name) == items[IndexOf(items, NamePrefix \o name)].Keys

(* C10: deletion.  For an object this store created under the name X: when  *)
(* DeleteSecret of X and the id of one of the object's items returns        *)
(* without error, FindSecret(X) gives nil if that was the only item, and    *)
(* the primary of the remaining items otherwise.                            *)
C10_Deletion ==
    [][\A c \in Callers :
          (/\ Len(done'[c]) = Len(done[c]) + 1
           /\ Last(done'[c]).op = "DeleteSecret"
           /\ Last(done'[c]).err = NoErr
           /\ CreatedHere(Last(done'[c]).name)
           /\ HasRecord(keysets, Last(done'[c]).name)
           /\ \E j \in 1..Len(KeysOf(keysets, Last(done'[c]).name)) :
                  KeysOf(keysets, Last(done'[c]).name)[j].Id = Last(done'[c]).id)
          => LET X == Last(done'[c]).name
                 rest == SelectSeq(KeysOf(keysets, X),
                                   LAMBDA k : k.Id # Last(done'[c]).id)
             IN  /\ rest = <<>> => Absent(FindSecret(keysets', X, FALSE))
                 /\ rest # <<>> =>
                        /\ HasRecord(keysets', X)
                        /\ KeysOf(keysets', X) = rest
                        /\ FindSecret(keysets', X, FALSE).s = PrimaryOf(keysets', X)]_vars

-----------------------------------------------------------------------------
\* the strings a listed name can be
NameUniverse == {""} \cup Names \cup {KeysetNames[n] : n \in 1..Len(KeysetNames)}

\* x is the stored name with one leading "token-" removed: "token-" + x is the
\* stored name, or the stored name has no such beginning and x is it
StripsTo(stored, x) ==
    IF \E y \in NameUniverse : "token-" \o y = stored
        THEN "token-" \o x = stored
    ELSE x = stored

RECURSIVE Listed(_)
\* one stripped name per secret-typed object, in the order of the store
Listed(items) ==
    IF items = <<>> THEN <<>>
    ELSE (IF Head(items).Type = SecretTypeSecret
              THEN <<CHOOSE x \in NameUniverse : StripsTo(Head(items).Name, x)>>
          ELSE <<>>) \o Listed(Tail(items))

(* C11: list filtering.  A ListSecrets that the server does not fail        *)
(* returns, in the store's order, one name per secret-typed object, its     *)
(* stored name with one leading "token-" removed, and no name for an object *)
(* of another type; it makes one List call and leaves the store as it was.  *)
C11_ListFiltering ==
    [][\A c \in Callers :
          (/\ Len(done'[c]) = Len(done[c]) + 1
           /\ Last(done'[c]).op = "ListSecrets")
          => LET r == Last(done'[c])
             IN  /\ keysets' = keysets
                 /\ Len(r.calls) = 1 /\ r.calls[1].call = "List"
                 /\ ~r.calls[1].fault => r.err = NoErr /\ r.names = Listed(keysets)
                 /\ r.calls[1].fault => r.err = ErrListingKeysets /\ r.names = <<>>]_vars

\* a ListSecrets has returned two names, one of them beginning with the
\* prefix, from a store that also holds a keypair
C11_Witness ==
    \E c \in Callers : \E n \in 1..Len(done[c]) :
        /\ done[c][n].op = "ListSecrets"
        /\ done[c][n].names = <<"a", "token-a">>
        /\ Len(keysets) = 3
        /\ \E k \in 1..Len(keysets) : keysets[k].Type = SecretTypeKeypair

-----------------------------------------------------------------------------
\* the place, among the listed names, of the object stored under a name
ListedAt(items, stored) ==
    Cardinality({j \in 1..IndexOf(items, stored) : items[j].Type = SecretTypeSecret})

(* C12: prefix round-trip.  Once a GetOrCreateSecret(X, P) has created the  *)
(* object, for names X that begin with "token-" too: the store holds it     *)
(* under "token-" + X, as a secret with the one item P; FindSecret(X)       *)
(* gives P; and ListSecrets lists that object as X, not as "token-" + X.    *)
C12_PrefixRoundTrip ==
    \A c \in Callers : \A v \in InvocationsOf(c) :
        (/\ v.op = "GetOrCreateSecret"
         /\ \E k \in 1..Len(v.calls) :
                v.calls[k].call = "Create" /\ v.calls[k].err = NoErr)
        => /\ Exists(keysets, "token-" \o v.name)
           /\ LET keyset == keysets[IndexOf(keysets, "token-" \o v.name)]
                   names == ListSecrets(keysets, FALSE).names
                   at == ListedAt(keysets, "token-" \o v.name)
               IN  /\ keyset.Type = SecretTypeSecret
                   /\ Len(keyset.Keys) = 1
                   /\ keyset.Keys[1].PrivateMaterial = v.secret
                   /\ FindSecret(keysets, v.name, FALSE) = [s |-> v.secret, err |-> NoErr]
                   /\ at \in 1..Len(names)
                   /\ names[at] = v.name
                   /\ names[at] # "token-" \o v.name

\* a secret has been created under the name "token-a", besides the object
\* "token-a" of the secret "a"
C12_Witness ==
    \E c \in Callers : \E n \in 1..Len(done[c]) :
        /\ done[c][n].op = "GetOrCreateSecret"
        /\ done[c][n].name = "token-a"
        /\ done[c][n].created
        /\ Exists(keysets, "token-a")
        /\ Exists(keysets, "token-token-a")

-----------------------------------------------------------------------------
\* the places of the Gets in a log of store calls
Gets(calls) == {k \in 1..Len(calls) : calls[k].call = "Get"}

\* the bounds on a log: two Creates, three Gets, of which the third follows a
\* Create
BoundedCalls(calls) ==
    /\ Cardinality(Creates(calls)) <= 2
    /\ Cardinality(Gets(calls)) <= 3
    /\ Len(calls) <= 5
    /\ Cardinality(Gets(calls)) = 3 => Creates(calls) # {}

(* C13: bounded retry.  Whatever the API server answers and however the     *)
(* other callers interleave, an invocation of GetOrCreateSecret makes at    *)
(* most 2 Create calls and at most 3 Get calls, and every invocation that   *)
(* is entered ends: it returns, or its caller ends in the fatal abort.      *)
C13_BoundedRetry ==
    /\ [](\A c \in Callers :
             /\ pc[c] # "idle" => BoundedCalls(cur[c].calls)
             /\ \A n \in 1..Len(done[c]) :
                    done[c][n].op = "GetOrCreateSecret" => BoundedCalls(done[c][n].calls))
    /\ \A c \in Callers : (pc[c] # "idle") ~> (pc[c] \in {"idle", "fatal"})

\* an invocation has returned after two Gets and two Creates, its second pass
\* through the loop, and another after a Create and the read that follows it
C13_Witness ==
    /\ \E c \in Callers : \E n \in 1..Len(done[c]) :
           /\ done[c][n].op = "GetOrCreateSecret"
           /\ Cardinality(Creates(done[c][n].calls)) = 2
           /\ Cardinality(Gets(done[c][n].calls)) = 2
    /\ \E c \in Callers : \E n \in 1..Len(done[c]) :
           /\ done[c][n].op = "GetOrCreateSecret"
           /\ Len(done[c][n].calls) = 3
           /\ done[c][n].calls[2].call = "Create"
           /\ done[c][n].calls[3].call = "Get"

-----------------------------------------------------------------------------
\* caller c returns from GetOrCreateSecret in this step
GocsReturns(c) ==
    /\ Len(done'[c]) = Len(done[c]) + 1
    /\ Last(done'[c]).op = "GetOrCreateSecret"

\* the call before the last of a log is a Create that succeeded
WroteThenRead(calls) ==
    /\ Len(calls) >= 2
    /\ calls[Len(calls) - 1].call = "Create"
    /\ calls[Len(calls) - 1].err = NoErr

(* C14: the returned value is read back, never echoed.  In the step in     *)
(* which GetOrCreateSecret returns a payload or returns without error,     *)
(* with either value of created, the last call of the invocation is a Get  *)
(* that succeeded, issued in that step and so after every Create of the    *)
(* invocation, and the value returned is that Get's result: the primary    *)
(* payload of the name's object at that read.  It reports created exactly  *)
(* when that Get directly follows its own successful Create.  With an      *)
(* error no payload is returned.                                           *)
C14_ReadBackNeverEchoed ==
    [][\A c \in Callers :
          GocsReturns(c) =>
              LET r == Last(done'[c])
                  g == Last(r.calls)
              IN  /\ r.err # NoErr => r.s = Nil
                  /\ (r.s # Nil \/ r.err = NoErr) =>
                         /\ r.err = NoErr
                         /\ g.call = "Get" /\ ~g.fault /\ g.err = NoErr
                         /\ r.calls = Append(cur[c].calls, g)
                         /\ \A k \in Creates(r.calls) : k < Len(r.calls)
                         /\ r.s = g.s
                         /\ r.s = PrimaryOf(keysets, r.name)
                         /\ r.created <=> WroteThenRead(r.calls)]_vars

\* one invocation wrote the object and returned what its read after the
\* Create found; another lost the Create and returned what its second Get
\* found, which is not its own candidate
C14_Witness ==
    /\ \E c \in Callers : \E n \in 1..Len(done[c]) :
           /\ done[c][n].op = "GetOrCreateSecret"
           /\ done[c][n].created /\ done[c][n].s # Nil
           /\ WroteThenRead(done[c][n].calls)
    /\ \E c \in Callers : \E n \in 1..Len(done[c]) :
           /\ done[c][n].op = "GetOrCreateSecret"
           /\ ~done[c][n].created /\ done[c][n].s # Nil
           /\ Conflicts(done[c][n].calls) # {}
           /\ done[c][n].s # done[c][n].secret

-----------------------------------------------------------------------------
\* caller c makes the createSecret call of its invocation in this step
CreateStep(c) ==
    /\ pc[c] = "createSecret"
    /\ <<pc[c], cur[c], done[c]>>' # <<pc[c], cur[c], done[c]>>

\* the log of store calls of c's invocation after this step
CallsAfter(c) ==
    IF Len(done'[c]) > Len(done[c]) THEN Last(done'[c]).calls ELSE cur'[c].calls

(* C15: createSecret writes one well-formed object or nothing.  In every   *)
(* step in which a caller calls createSecret(s, X): when it succeeds there *)
(* was no object named "token-" + X, and the store after the step is the   *)
(* store before it with one object added, named "token-" + X, of type      *)
(* Secret, with exactly one item, whose payload is s.Data; when an object  *)
(* is stored under "token-" + X and the server answers, it returns         *)
(* AlreadyExists; and whenever it returns an error, AlreadyExists or       *)
(* another, every object of the store is as it was.                        *)
C15_CreateWritesOneOrNothing ==
    [][\A c \in Callers :
          CreateStep(c) =>
              LET k == Last(CallsAfter(c))
                  X == cur[c].name
              IN  /\ k.call = "Create"
                  /\ Len(CallsAfter(c)) = Len(cur[c].calls) + 1
                  /\ k.err = NoErr =>
                         /\ ~Exists(keysets, NamePrefix \o X)
                         /\ ~k.fault
                         /\ Len(keysets') = Len(keysets) + 1
                         /\ SubSeq(keysets', 1, Len(keysets)) = keysets
                         /\ Last(keysets').Name = NamePrefix \o X
                         /\ Last(keysets').Type = SecretTypeSecret
                         /\ Len(Last(keysets').Keys) = 1
                         /\ Last(keysets').Keys[1].PrivateMaterial = cur[c].secret
                         /\ Last(keysets').Keys[1].Id \in Ids
                  /\ (Exists(keysets, NamePrefix \o X) /\ ~k.fault) =>
                         k.err = ErrAlreadyExists
                  /\ k.err = ErrAlreadyExists => Exists(keysets, NamePrefix \o X)
                  /\ k.err # NoErr => keysets' = keysets]_vars

\* one createSecret has written its object, next to other objects, and
\* another, for the same name, was answered AlreadyExists
C15_Witness ==
    /\ Len(keysets) >= 2
    /\ \E c \in Callers : \E v \in InvocationsOf(c) :
           /\ v.op = "GetOrCreateSecret"
           /\ \E k \in Creates(v.calls) : v.calls[k].err = NoErr
           /\ \E d \in Callers : \E w \in InvocationsOf(d) :
                  /\ w.op = "GetOrCreateSecret" /\ w.name = v.name
                  /\ Conflicts(w.calls) # {}

-----------------------------------------------------------------------------
(* C16: whenever GetOrCreateSecret returns with no error, the secret it    *)
(* returns is not nil, in every interleaving with the GetOrCreateSecret    *)
(* and DeleteSecret invocations of the other callers, a DeleteSecret that  *)
(* lands between the invocation's successful Create and the read that      *)
(* follows it included.                                                    *)
C16_NoErrorMeansSecret ==
    \A c \in Callers : \A n \in 1..Len(done[c]) :
        (done[c][n].op = "GetOrCreateSecret" /\ done[c][n].err = NoErr)
            => done[c][n].s # Nil

\* an invocation has created the object and returned without error, and a
\* DeleteSecret of the same name and of the id of the object's item has
\* returned without error after landing between the Create and the read
C16_Witness ==
    \E c \in Callers : \E n \in 1..Len(done[c]) :
        /\ done[c][n].op = "GetOrCreateSecret"
        /\ done[c][n].err = NoErr /\ done[c][n].created
        /\ WroteThenRead(done[c][n].calls)
        /\ \E d \in Callers \ {c} : \E m \in 1..Len(done[d]) :
               /\ done[d][m].op = "DeleteSecret"
               /\ done[d][m].err = NoErr
               /\ done[d][m].name = done[c][n].name
               /\ done[d][m].id = KeysOf(keysets, done[c][n].name)[1].Id
               /\ \E k \in 1..Len(done[d][m].names) :
                      done[d][m].names[k] = done[c][n].name

-----------------------------------------------------------------------------
\* an object is stored for the name and has no primary item
NoPrimary(items, name) == HasRecord(items, name) /\ PrimaryOf(items, name) = Nil

\* the server failed none of the calls of the log
NoFault(calls) == \A k \in 1..Len(calls) : ~calls[k].fault

\* what the invocation does on an object without primary: Get, Create, Get,
\* Create, both Gets finding nothing and both Creates refused, then the return
\* of AlreadyExists
FailsOnNoPrimary(r) ==
    /\ Len(r.calls) = 4
    /\ Gets(r.calls) = {1, 3}
    /\ Creates(r.calls) = {2, 4}
    /\ \A k \in {1, 3} : r.calls[k].s = Nil /\ r.calls[k].err = NoErr
    /\ Conflicts(r.calls) = {2, 4}
    /\ r.err = ErrAlreadyExists
    /\ ~r.created
    /\ r.s = Nil

-----------------------------------------------------------------------------
\* the places of the Creates of a log that succeeded
Written(calls) == {k \in Creates(calls) : calls[k].err = NoErr}

\* the finished invocations of GetOrCreateSecret for a name that reported
\* created
ReportedCreated(name) ==
    {ck \in FinishedGocs : done[ck[1]][ck[2]].name = name /\ done[ck[1]][ck[2]].created}

\* the successful Creates for a name: of the finished invocations, by caller,
\* invocation and place in the log, and of the invocations under way
SuccessfulCreates(name) ==
    {t \in FinishedGocs \X (1..(2 * MaxAttempts + 1)) :
        /\ done[t[1][1]][t[1][2]].name = name
        /\ t[2] \in Written(done[t[1][1]][t[1][2]].calls)}
    \cup {t \in Callers \X {0} \X (1..(2 * MaxAttempts + 1)) :
             /\ pc[t[1]] # "idle" /\ cur[t[1]].name = name
             /\ t[3] \in Written(cur[t[1]].calls)}

(* C18: created = TRUE is reported only by a writer.  In every             *)
(* interleaving, DeleteSecret of other callers included, an invocation of  *)
(* GetOrCreateSecret that has returned created = TRUE has in its own log a *)
(* Create that succeeded, and one whose Creates all failed, or that made   *)
(* none, has returned created = FALSE; and for every name the number of    *)
(* invocations that reported created = TRUE is at most the number of       *)
(* Creates for that name that succeeded.                                   *)
C18_CreatedOnlyByWriter ==
    /\ \A ck \in FinishedGocs :
           LET r == done[ck[1]][ck[2]]
           IN  /\ r.created => Written(r.calls) # {}
               /\ Written(r.calls) = {} => ~r.created
    /\ \A name \in Names :
           Cardinality(ReportedCreated(name)) <= Cardinality(SuccessfulCreates(name))

\* of two invocations for one name, the one whose Create succeeded has
\* reported created = TRUE and the one whose Create was refused has reported
\* created = FALSE with the same secret
C18_Witness ==
    \E ck \in FinishedGocs : \E dk \in FinishedGocs :
        LET r == done[ck[1]][ck[2]]
            q == done[dk[1]][dk[2]]
        IN  /\ r.name = q.name
            /\ r.created /\ Written(r.calls) # {}
            /\ ~q.created /\ Written(q.calls) = {} /\ Creates(q.calls) # {}
            /\ q.err = NoErr /\ q.s = r.s
            /\ Cardinality(ReportedCreated(r.name)) = 1
            /\ Cardinality(SuccessfulCreates(r.name)) = 1

====
